---- MODULE Spec2Model ----
(***************************************************************************)
(* A model of entity_event/context_loader.py: loading the model objects    *)
(* that the context hints of the context renderers point at into the       *)
(* contexts of a list of events.                                           *)
(*                                                                         *)
(* Python values of a context (a JSON document) are tagged records.        *)
(* Python dicts are sequences of <<key, value>> pairs in insertion order.  *)
(***************************************************************************)
EXTENDS Integers, Sequences, FiniteSets, TLC

\* ------------------------------------------------------------------ bounds
MaxId == 2
MaxNodes == 4
MaxEvents == 2
MaxRenderers == 2

Ids == 1..MaxId

\* ----------------------------------------------------------- Python values
IntV(i) == [tag |-> "int", val |-> i]
StrV == [tag |-> "str", val |-> "s"]
NoneV == [tag |-> "none", val |-> 0]
ListV(s) == [tag |-> "list", val |-> s]
DictV(items) == [tag |-> "dict", val |-> items]
\* a fetched model object: the only thing known of it is its model and its id
ObjV(model, id) == [tag |-> "obj", val |-> <<model, id>>]

IsList(v) == v.tag = "list"
IsDict(v) == v.tag = "dict"
IsInt(v) == v.tag = "int"
\* dict.get(key) hashes the key: lists and dicts are unhashable
Hashable(v) == v.tag \notin {"list", "dict"}

\* ------------------------------------------------------------ Python dicts
Has(d, k) == \E i \in 1..Len(d) : d[i][1] = k
IndexOf(d, k) == CHOOSE i \in 1..Len(d) : d[i][1] = k
Get(d, k) == d[IndexOf(d, k)][2]
Put(d, k, v) == IF Has(d, k) THEN [d EXCEPT ![IndexOf(d, k)] = <<k, v>>]
                ELSE Append(d, <<k, v>>)
KeysOf(d) == {d[i][1] : i \in 1..Len(d)}
ValuesOf(d) == [i \in 1..Len(d) |-> d[i][2]]

RECURSIVE Flat(_)
Flat(ss) == IF Len(ss) = 0 THEN <<>> ELSE Head(ss) \o Flat(Tail(ss))

\* ------------------------------------------------------------- get_model
NoModel == "None"
get_model(app_name, model_name) ==
    IF app_name = "auth" /\ model_name = "User" THEN "User"
    ELSE IF app_name = "shop" /\ model_name = "Item" THEN "Item"
    ELSE NoModel

\* ---------------------------------------------- get_context_hints_per_source
DefaultHints == [app_name |-> "None", model_name |-> "None",
                 select_related |-> {}, prefetch_related |-> {}]

\* mutant: the sets of the last declaration replace those merged so far
MergeHintOverwrite(context_hints_per_source, source, key, hints) ==
    LET per == IF Has(context_hints_per_source, source)
               THEN Get(context_hints_per_source, source) ELSE <<>>
    IN Put(context_hints_per_source, source, Put(per, key, hints))

\* the body of the inner loop: lines 25-28
MergeHint(context_hints_per_source, source, key, hints) ==
    LET per == IF Has(context_hints_per_source, source)
               THEN Get(context_hints_per_source, source) ELSE <<>>
        old == IF Has(per, key) THEN Get(per, key) ELSE DefaultHints
        new == [app_name |-> hints.app_name,
                model_name |-> hints.model_name,
                select_related |-> old.select_related \cup hints.select_related,
                prefetch_related |-> old.prefetch_related \cup hints.prefetch_related]
    IN Put(context_hints_per_source, source, Put(per, key, new))

RECURSIVE MergeRenderer(_, _, _)
MergeRenderer(acc, cr, j) ==
    IF j > Len(cr.context_hints) THEN acc
    ELSE MergeRenderer(MergeHint(acc, cr.source, cr.context_hints[j][1],
                                 cr.context_hints[j][2]), cr, j + 1)

RECURSIVE MergeRenderers(_, _, _)
MergeRenderers(acc, context_renderers, i) ==
    IF i > Len(context_renderers) THEN acc
    ELSE MergeRenderers(MergeRenderer(acc, context_renderers[i], 1),
                        context_renderers, i + 1)

get_context_hints_per_source(context_renderers) ==
    MergeRenderers(<<>>, context_renderers, 1)

\* -------------------------------------------- get_querysets_for_context_hints
\* every merged hint, in the order of the two nested loops of lines 47-48
AllHints(context_hints_per_source) ==
    Flat([i \in 1..Len(context_hints_per_source) |->
            ValuesOf(context_hints_per_source[i][2])])

ModelOf(hints) == get_model(hints.app_name, hints.model_name)

\* mutant: the queryset of a model keeps the sets of the last hint only
RECURSIVE PlanHintsOverwrite(_, _, _)
PlanHintsOverwrite(model_querysets, hs, i) ==
    IF i > Len(hs) THEN model_querysets
    ELSE PlanHintsOverwrite(
            Put(model_querysets, ModelOf(hs[i]),
                [select_related |-> hs[i].select_related,
                 prefetch_related |-> hs[i].prefetch_related]), hs, i + 1)

\* a queryset: the model's manager with the select/prefetch related arguments
RECURSIVE PlanHints(_, _, _)
PlanHints(model_querysets, hs, i) ==
    IF i > Len(hs) THEN model_querysets
    ELSE LET model == ModelOf(hs[i])
             old == IF Has(model_querysets, model) THEN Get(model_querysets, model)
                    ELSE [select_related |-> {}, prefetch_related |-> {}]
             new == [select_related |-> old.select_related \cup hs[i].select_related,
                     prefetch_related |-> old.prefetch_related \cup hs[i].prefetch_related]
         IN PlanHints(Put(model_querysets, model, new), hs, i + 1)

get_querysets_for_context_hints(context_hints_per_source) ==
    PlanHints(<<>>, AllHints(context_hints_per_source), 1)

\* get_model gave None for some hint: None.objects raises at line 50
Unresolved(context_hints_per_source) ==
    \E i \in 1..Len(AllHints(context_hints_per_source)) :
        ModelOf(AllHints(context_hints_per_source)[i]) = NoModel

\* ------------------------------------------------------------------ dict_find
KeyStep(k) == <<"key", k>>
IdxStep(i) == <<"idx", i>>

\* mutant: a value that matched is not searched
RECURSIVE dict_find_at_skip(_, _, _)
dict_find_at_skip(d, which_key, at) ==
    IF IsList(d) THEN
        Flat([i \in 1..Len(d.val) |->
                dict_find_at_skip(d.val[i], which_key, Append(at, IdxStep(i)))])
    ELSE IF IsDict(d) THEN
        Flat([j \in 1..Len(d.val) |->
                IF d.val[j][1] = which_key
                THEN <<[d |-> at, value |-> d.val[j][2]]>>
                ELSE dict_find_at_skip(d.val[j][2], which_key,
                                       Append(at, KeyStep(d.val[j][1])))])
    ELSE <<>>

\* the results dict_find yields, in order; the dictionary d of a result is named
\* by the path that leads to it from the root
RECURSIVE dict_find_at(_, _, _)
dict_find_at(d, which_key, at) ==
    IF IsList(d) THEN
        Flat([i \in 1..Len(d.val) |->
                dict_find_at(d.val[i], which_key, Append(at, IdxStep(i)))])
    ELSE IF IsDict(d) THEN
        Flat([j \in 1..Len(d.val) |->
                (IF d.val[j][1] = which_key
                 THEN <<[d |-> at, value |-> d.val[j][2]]>> ELSE <<>>)
                \o dict_find_at(d.val[j][2], which_key,
                                Append(at, KeyStep(d.val[j][1])))])
    ELSE <<>>

dict_find(d, which_key) == dict_find_at(d, which_key, <<>>)

\* --------------------------------------------------------- get_model_ids_to_fetch
\* mutant: an unknown source gets the hints of the first source
HintsForAny(context_hints_per_source, source) ==
    IF Has(context_hints_per_source, source)
    THEN Get(context_hints_per_source, source)
    ELSE IF Len(context_hints_per_source) > 0 THEN context_hints_per_source[1][2]
    ELSE <<>>

\* context_hints_per_source.get(event.source, {})
HintsFor(context_hints_per_source, source) ==
    IF Has(context_hints_per_source, source)
    THEN Get(context_hints_per_source, source) ELSE <<>>

\* mutant: a list value is not looked into
IntsOfScalarOnly(value) == IF IsInt(value) THEN {value.val} ELSE {}

\* lines 101-104: the integers of one found value
IntsOf(value) ==
    LET values == IF IsList(value) THEN value.val ELSE <<value>>
    IN {values[i].val : i \in {n \in 1..Len(values) : IsInt(values[n])}}

\* one <<model, ids>> per result of dict_find, in the order of the three loops
IdUpdates(events, context_hints_per_source) ==
    Flat([e \in 1..Len(events) |->
      LET context_hints == HintsFor(context_hints_per_source, events[e].source)
      IN Flat([h \in 1..Len(context_hints) |->
           LET found == dict_find(events[e].context, context_hints[h][1])
           IN [r \in 1..Len(found) |->
                 <<ModelOf(context_hints[h][2]), IntsOf(found[r].value)>>]])])

\* mutant: every found value makes an entry of its own
RECURSIVE ApplyIdUpdatesNoMerge(_, _, _)
ApplyIdUpdatesNoMerge(model_ids_to_fetch, ups, i) ==
    IF i > Len(ups) THEN model_ids_to_fetch
    ELSE ApplyIdUpdatesNoMerge(Append(model_ids_to_fetch, ups[i]), ups, i + 1)

RECURSIVE ApplyIdUpdates(_, _, _)
ApplyIdUpdates(model_ids_to_fetch, ups, i) ==
    IF i > Len(ups) THEN model_ids_to_fetch
    ELSE LET model == ups[i][1]
             old == IF Has(model_ids_to_fetch, model)
                    THEN Get(model_ids_to_fetch, model) ELSE {}
         IN ApplyIdUpdates(Put(model_ids_to_fetch, model, old \cup ups[i][2]),
                           ups, i + 1)

get_model_ids_to_fetch(events, context_hints_per_source) ==
    ApplyIdUpdates(<<>>, IdUpdates(events, context_hints_per_source), 1)

\* ------------------------------------------------------------ fetch_model_data
\* queryset.filter(id__in=ids_to_fetch), evaluated: the objects of the model with
\* the ids the backend holds among those asked for
FilterIdIn(model, held) == {ObjV(model, i) : i \in held}

\* id_dict(queryset): the objects by their own id
id_dict(queryset) ==
    [i \in {obj.val[2] : obj \in queryset} |->
        CHOOSE obj \in queryset : obj.val[2] = i]

\* --------------------------------------------- load_fetched_objects_into_contexts
Ok(v) == [err |-> "", v |-> v]
Raise(e, v) == [err |-> e, v |-> v]

\* model_data[model].get(key)
Lookup(model_data, model, key) ==
    IF ~Has(model_data, model) THEN Raise("KeyError", key)
    ELSE IF ~Hashable(key) THEN Raise("TypeError", key)
    ELSE IF IsInt(key) /\ key.val \in DOMAIN Get(model_data, model)
         THEN Ok(Get(model_data, model)[key.val])
         ELSE Ok(NoneV)

\* mutant: the ids that were not fetched are dropped from the list
RECURSIVE LoadListDropMisses(_, _, _, _)
LoadListDropMisses(lst, i, model, model_data) ==
    IF i > Len(lst) THEN Ok(lst)
    ELSE LET r == Lookup(model_data, model, lst[i])
         IN IF r.err # "" THEN Raise(r.err, lst)
            ELSE IF r.v = NoneV
            THEN LoadListDropMisses(SubSeq(lst, 1, i - 1) \o SubSeq(lst, i + 1, Len(lst)),
                                    i, model, model_data)
            ELSE LoadListDropMisses([lst EXCEPT ![i] = r.v], i + 1, model, model_data)

\* lines 139-140: every element of the list d[context_key] is replaced in turn;
\* an exception leaves the elements before it replaced
RECURSIVE LoadList(_, _, _, _)
LoadList(lst, i, model, model_data) ==
    IF i > Len(lst) THEN Ok(lst)
    ELSE LET r == Lookup(model_data, model, lst[i])
         IN IF r.err # "" THEN Raise(r.err, lst)
            ELSE LoadList([lst EXCEPT ![i] = r.v], i + 1, model, model_data)

\* lines 138-142: the body of the loop over dict_find's results, for the result
\* (d, value) where value is d[context_key]
LoadValue(value, model, model_data) ==
    IF IsList(value)
    THEN LET r == LoadList(value.val, 1, model, model_data)
         IN [err |-> r.err, v |-> ListV(r.v)]
    ELSE Lookup(model_data, model, value)

\* The loop of lines 137-142 over the generator dict_find(d, context_key): the
\* generator walks the tree while the loop body writes into it. After a result
\* (d, v) the generator goes on into the object v it held before the write: a
\* list v was changed in place and is still d[context_key]; any other v is no
\* longer in the tree.
RECURSIVE LoadInto(_, _, _, _)
RECURSIVE LoadElems(_, _, _, _, _)
RECURSIVE LoadItems(_, _, _, _, _)
LoadInto(d, context_key, model, model_data) ==
    IF IsList(d) THEN LoadElems(d, 1, context_key, model, model_data)
    ELSE IF IsDict(d) THEN LoadItems(d, 1, context_key, model, model_data)
    ELSE Ok(d)

LoadElems(d, i, context_key, model, model_data) ==
    IF i > Len(d.val) THEN Ok(d)
    ELSE LET r == LoadInto(d.val[i], context_key, model, model_data)
             d2 == ListV([d.val EXCEPT ![i] = r.v])
         IN IF r.err # "" THEN Raise(r.err, d2)
            ELSE LoadElems(d2, i + 1, context_key, model, model_data)

LoadItems(d, j, context_key, model, model_data) ==
    IF j > Len(d.val) THEN Ok(d)
    ELSE LET k == d.val[j][1]
             v == d.val[j][2]
             w == IF k = context_key THEN LoadValue(v, model, model_data) ELSE Ok(v)
             inTree == k # context_key \/ IsList(v)
             r == IF w.err # "" THEN w
                  ELSE IF inTree THEN LoadInto(w.v, context_key, model, model_data)
                  ELSE LET old == LoadInto(v, context_key, model, model_data)
                       IN [err |-> old.err, v |-> w.v]
             d2 == DictV([d.val EXCEPT ![j] = <<k, r.v>>])
         IN IF r.err # "" THEN Raise(r.err, d2)
            ELSE LoadItems(d2, j + 1, context_key, model, model_data)

\* lines 135-142 for one event: every (context_key, hints) of its source in turn
RECURSIVE LoadHints(_, _, _, _)
LoadHints(context, context_hints, h, model_data) ==
    IF h > Len(context_hints) THEN Ok(context)
    ELSE LET r == LoadInto(context, context_hints[h][1],
                           ModelOf(context_hints[h][2]), model_data)
         IN IF r.err # "" THEN r
            ELSE LoadHints(r.v, context_hints, h + 1, model_data)

LoadEventContext(event, model_data, context_hints_per_source) ==
    LoadHints(event.context, HintsFor(context_hints_per_source, event.source),
              1, model_data)

\* ------------------------------------------------------------------- inputs
Hints(app_name, model_name, select_related, prefetch_related) ==
    [app_name |-> app_name, model_name |-> model_name,
     select_related |-> select_related, prefetch_related |-> prefetch_related]
HUser == Hints("auth", "User", {"profile"}, {})
HUser2 == Hints("auth", "User", {"settings"}, {"groups"})
HItem == Hints("shop", "Item", {}, {"tags"})
HItem2 == Hints("shop", "Item", {"profile"}, {})
HGhost == Hints("auth", "Ghost", {}, {})

Renderer(source, render_group, context_hints) ==
    [source |-> source, render_group |-> render_group, context_hints |-> context_hints]
Event(source, context) == [source |-> source, context |-> context]
Medium(render_group) == [render_group |-> render_group]

RECURSIVE SeqsUpTo(_, _)
SeqsUpTo(S, n) ==
    IF n = 0 THEN {<<>>}
    ELSE SeqsUpTo(S, n - 1) \cup
         {Append(s, x) : s \in {t \in SeqsUpTo(S, n - 1) : Len(t) = n - 1}, x \in S}

\* the ContextRenderer tables of the specification Spec
LoadTables ==
    { << Renderer("feed", "g1", << <<"user", HUser>>, <<"item", HItem>> >>) >>,
      << Renderer("feed", "g1", << <<"item", HUser2>> >>),
         Renderer("mail", "g1", << <<"user", HItem>> >>),
         Renderer("feed", "g1", << <<"user", HUser>> >>) >>,
      << Renderer("feed", "g1", << <<"user", HGhost>> >>) >>,
      << Renderer("feed", "g2", << <<"user", HUser>> >>),
         Renderer("mail", "g1", << <<"item", HItem>> >>) >> }

LoadContexts ==
    { DictV(<< <<"user", ListV(<<IntV(1), IntV(2)>>)>>, <<"item", IntV(2)>> >>),
      DictV(<< <<"user", ListV(<<IntV(2), IntV(1), IntV(2)>>)>>,
               <<"meta", DictV(<< <<"user", IntV(1)>>, <<"note", StrV>> >>)>> >>),
      DictV(<< <<"user", StrV>> >>),
      DictV(<< <<"user", ListV(<<>>)>> >>),
      DictV(<< <<"user", DictV(<< <<"user", IntV(1)>> >>)>> >>),
      DictV(<< <<"meta", ListV(<< DictV(<< <<"item", IntV(1)>> >>),
                                  DictV(<< <<"item", ListV(<<IntV(2)>>)>> >>) >>)>> >>),
      DictV(<< <<"user", ListV(<< IntV(1), DictV(<< <<"item", IntV(2)>> >>) >>)>> >>),
      DictV(<< <<"user", StrV>>,
               <<"meta", ListV(<< DictV(<< <<"user",
                     ListV(<<IntV(1), StrV, IntV(2)>>)>> >>) >>)>> >>) }

LoadEvents ==
    {Event("feed", c) : c \in LoadContexts}
    \cup {Event("mail", DictV(<< <<"user", ListV(<<IntV(1), IntV(2)>>)>>,
                                 <<"item", IntV(2)>> >>)),
          Event("other", DictV(<< <<"user", ListV(<<IntV(1), IntV(2)>>)>>,
                                  <<"item", IntV(2)>> >>))}

\* the declarations of the specification SpecHints
HintDicts ==
    { <<>>,
      << <<"user", HUser>> >>, << <<"user", HUser2>> >>, << <<"item", HItem2>> >>,
      << <<"user", HUser2>>, <<"item", HItem>> >>,
      << <<"item", HUser>>, <<"user", HItem2>> >> }

HintRenderers ==
    {Renderer(source, "g1", ch) : source \in {"feed", "mail"}, ch \in HintDicts}
    \cup {Renderer("feed", "g2", << <<"user", HItem>> >>),
          Renderer("feed", "g1", << <<"user", HGhost>> >>)}

HintEvents ==
    << Event("feed", DictV(<< <<"user", ListV(<<IntV(1)>>)>>, <<"item", IntV(1)>> >>)),
       Event("mail", DictV(<< <<"user", IntV(1)>> >>)) >>

\* the contexts of the specification SpecScan: every tree of at most MaxNodes
\* nodes over two keys whose root is a dict
ScanKeys == {"user", "meta"}
ScanScalars == {IntV(i) : i \in Ids} \cup {StrV}

RECURSIVE TreesOfSize(_)
RECURSIVE ForestsOfSize(_)
TreesOfSize(n) ==
    (IF n = 1 THEN ScanScalars ELSE {})
    \cup {ListV(f) : f \in ForestsOfSize(n - 1)}
    \cup UNION {{DictV([i \in 1..Len(f) |-> <<ks[i], f[i]>>]) :
                   ks \in {q \in [1..Len(f) -> ScanKeys] :
                             \A a, b \in 1..Len(f) : q[a] = q[b] => a = b}} :
                f \in {g \in ForestsOfSize(n - 1) : Len(g) <= Cardinality(ScanKeys)}}

ForestsOfSize(m) ==
    IF m = 0 THEN {<<>>}
    ELSE UNION {{<<t>> \o f : t \in TreesOfSize(k), f \in ForestsOfSize(m - k)} :
                k \in 1..m}

ScanContexts ==
    {t \in UNION {TreesOfSize(n) : n \in 1..MaxNodes} : IsDict(t)}

ScanTables ==
    { << Renderer("feed", "g1", << <<"user", HUser>> >>) >>,
      << Renderer("feed", "g1", << <<"meta", HItem>>, <<"user", HUser>> >>) >> }

\* ---------------------------------------------------------------- the state
VARIABLES
    events,                   \* the events given to load_contexts, changed in place
    mediums,                  \* the mediums given to load_contexts
    renderers,                \* the ContextRenderer table
    pc,                       \* the line load_contexts is at
    context_renderers,
    context_hints_per_source,
    model_querysets,
    model_ids_to_fetch,
    model_data,               \* the dict fetch_model_data builds
    next_event,               \* the event the loop of line 133 is at
    error,                    \* the exception raised, "" if none
    events0,                  \* history: the events as given
    fetches                   \* history: <<model, ids>> of every backend fetch

vars == <<events, mediums, renderers, pc, context_renderers, context_hints_per_source,
          model_querysets, model_ids_to_fetch, model_data, next_event, error,
          events0, fetches>>

InitLocals ==
    /\ pc = "start"
    /\ context_renderers = <<>>
    /\ context_hints_per_source = <<>>
    /\ model_querysets = <<>>
    /\ model_ids_to_fetch = <<>>
    /\ model_data = <<>>
    /\ next_event = 1
    /\ error = ""
    /\ fetches = <<>>
    /\ events0 = events

Init ==
    /\ events \in SeqsUpTo(LoadEvents, MaxEvents) \ {<<>>}
    /\ mediums = <<Medium("g1"), Medium("g1")>>
    /\ renderers \in LoadTables
    /\ InitLocals

InitHints ==
    /\ events = HintEvents
    /\ mediums \in {<<Medium("g1")>>, <<Medium("g2"), Medium("g1")>>}
    /\ renderers \in SeqsUpTo(HintRenderers, MaxRenderers)
    /\ InitLocals

InitScan ==
    /\ events \in {<<Event("feed", c)>> : c \in ScanContexts}
    /\ mediums = <<Medium("g1")>>
    /\ renderers \in ScanTables
    /\ InitLocals

\* lines 149-152
FilterContextRenderers ==
    /\ pc = "start"
    /\ LET sources == {events[i].source : i \in 1..Len(events)}
           render_groups == {mediums[i].render_group : i \in 1..Len(mediums)}
       IN context_renderers' =
            SelectSeq(renderers, LAMBDA cr : cr.source \in sources
                                             /\ cr.render_group \in render_groups)
    /\ pc' = "hints"
    /\ UNCHANGED <<events, mediums, renderers, context_hints_per_source, model_querysets,
                   model_ids_to_fetch, model_data, next_event, error, events0, fetches>>

\* line 154
GetContextHintsPerSource ==
    /\ pc = "hints"
    /\ context_hints_per_source' = get_context_hints_per_source(context_renderers)
    /\ pc' = "querysets"
    /\ UNCHANGED <<events, mediums, renderers, context_renderers, model_querysets,
                   model_ids_to_fetch, model_data, next_event, error, events0, fetches>>

\* line 155
GetQuerysets ==
    /\ pc = "querysets"
    /\ IF Unresolved(context_hints_per_source)
       THEN /\ pc' = "raised"
            /\ error' = "AttributeError"
            /\ UNCHANGED model_querysets
       ELSE /\ pc' = "ids"
            /\ model_querysets' = get_querysets_for_context_hints(context_hints_per_source)
            /\ UNCHANGED error
    /\ UNCHANGED <<events, mediums, renderers, context_renderers, context_hints_per_source,
                   model_ids_to_fetch, model_data, next_event, events0, fetches>>

\* line 156
GetModelIdsToFetch ==
    /\ pc = "ids"
    /\ model_ids_to_fetch' = get_model_ids_to_fetch(events, context_hints_per_source)
    /\ pc' = "fetch"
    /\ UNCHANGED <<events, mediums, renderers, context_renderers, context_hints_per_source,
                   model_querysets, model_data, next_event, error, events0, fetches>>

\* mutant: a model with no ids to fetch is skipped
ToFetchNonEmpty(ids_per_model) == SelectSeq(ids_per_model, LAMBDA item : item[2] # {})

\* the models fetch_model_data fetches, all of model_ids_to_fetch.items()
ToFetch(ids_per_model) == ids_per_model

\* mutant: the objects of a model are loaded into the contexts as soon as fetched
FetchModelEager ==
    /\ pc = "fetch"
    /\ Len(model_data) < Len(ToFetch(model_ids_to_fetch))
    /\ LET item == ToFetch(model_ids_to_fetch)[Len(model_data) + 1]
       IN \E held \in SUBSET item[2] :
            /\ model_data' = Append(model_data,
                                    <<item[1], id_dict(FilterIdIn(item[1], held))>>)
            /\ events' = [e \in 1..Len(events) |->
                            [events[e] EXCEPT !.context =
                                LoadEventContext(events[e], model_data',
                                                 context_hints_per_source).v]]
            /\ fetches' = Append(fetches, item)
    /\ UNCHANGED <<mediums, renderers, pc, context_renderers, context_hints_per_source,
                   model_querysets, model_ids_to_fetch, next_event, error, events0>>

\* line 157, one item of the dict comprehension of lines 122-125: the backend
\* answers with the objects it holds among the ids asked for
FetchModel ==
    /\ pc = "fetch"
    /\ Len(model_data) < Len(ToFetch(model_ids_to_fetch))
    /\ LET item == ToFetch(model_ids_to_fetch)[Len(model_data) + 1]
           model == item[1]
           ids_to_fetch == item[2]
       IN IF ~Has(model_querysets, model)
          THEN /\ pc' = "raised"
               /\ error' = "KeyError"
               /\ UNCHANGED <<model_data, fetches>>
          ELSE /\ \E held \in SUBSET ids_to_fetch :
                    model_data' = Append(model_data,
                                         <<model, id_dict(FilterIdIn(model, held))>>)
               /\ fetches' = Append(fetches, <<model, ids_to_fetch>>)
               /\ UNCHANGED <<pc, error>>
    /\ UNCHANGED <<events, mediums, renderers, context_renderers,
                   context_hints_per_source, model_querysets, model_ids_to_fetch,
                   next_event, events0>>

\* the backend's fetch raises: nothing catches it
FetchFail ==
    /\ pc = "fetch"
    /\ Len(model_data) < Len(ToFetch(model_ids_to_fetch))
    /\ pc' = "raised"
    /\ error' = "BackendFetchError"
    /\ UNCHANGED <<events, mediums, renderers, context_renderers, context_hints_per_source,
                   model_querysets, model_ids_to_fetch, model_data, next_event,
                   events0, fetches>>

\* fetch_model_data returns
FetchReturn ==
    /\ pc = "fetch"
    /\ Len(model_data) = Len(ToFetch(model_ids_to_fetch))
    /\ pc' = "load"
    /\ UNCHANGED <<events, mediums, renderers, context_renderers, context_hints_per_source,
                   model_querysets, model_ids_to_fetch, model_data, next_event, error,
                   events0, fetches>>

\* line 158, one event of the loop of line 133
LoadEvent ==
    /\ pc = "load"
    /\ next_event <= Len(events)
    /\ LET r == LoadEventContext(events[next_event], model_data, context_hints_per_source)
       IN /\ events' = [events EXCEPT ![next_event].context = r.v]
          /\ IF r.err # ""
             THEN pc' = "raised" /\ error' = r.err /\ UNCHANGED next_event
             ELSE next_event' = next_event + 1 /\ UNCHANGED <<pc, error>>
    /\ UNCHANGED <<mediums, renderers, context_renderers, context_hints_per_source,
                   model_querysets, model_ids_to_fetch, model_data, events0, fetches>>

\* line 160
Return ==
    /\ pc = "load"
    /\ next_event > Len(events)
    /\ pc' = "done"
    /\ UNCHANGED <<events, mediums, renderers, context_renderers, context_hints_per_source,
                   model_querysets, model_ids_to_fetch, model_data, next_event, error,
                   events0, fetches>>

Next ==
    \/ FilterContextRenderers
    \/ GetContextHintsPerSource
    \/ GetQuerysets
    \/ GetModelIdsToFetch
    \/ FetchModel
    \/ FetchFail
    \/ FetchReturn
    \/ LoadEvent
    \/ Return

Spec == Init /\ [][Next]_vars
SpecHints == InitHints /\ [][Next]_vars
SpecScan == InitScan /\ [][Next]_vars

\* ------------------------------------------------------ what the claims speak of
\* the paths of a tree: the root, and below a list or dict one step and a path
RECURSIVE PathsOf(_)
PathsOf(t) ==
    {<<>>} \cup
    (IF IsList(t)
     THEN UNION {{<<IdxStep(i)>> \o p : p \in PathsOf(t.val[i])} : i \in 1..Len(t.val)}
     ELSE IF IsDict(t)
     THEN UNION {{<<KeyStep(t.val[j][1])>> \o p : p \in PathsOf(t.val[j][2])} :
                 j \in 1..Len(t.val)}
     ELSE {})

RECURSIVE At(_, _)
At(t, p) ==
    IF Len(p) = 0 THEN t
    ELSE IF Head(p)[1] = "idx" THEN At(t.val[Head(p)[2]], Tail(p))
    ELSE At(Get(t.val, Head(p)[2]), Tail(p))

Last(p) == p[Len(p)]
Front(p) == SubSeq(p, 1, Len(p) - 1)
EndsAtKey(p, key) == Len(p) > 0 /\ Last(p)[1] = "key" /\ Last(p)[2] = key
IsPrefix(p, q) == Len(p) <= Len(q) /\ SubSeq(q, 1, Len(p)) = p

\* the dict entries of a tree whose key is the given one, each by its path
Occurrences(t, key) == {p \in PathsOf(t) : EndsAtKey(p, key)}

Models == {"User", "Item"}
ContextKeys == {"user", "item", "meta", "note"}
IdUniverse == 0..(MaxId + 1)
Collected(model) ==
    IF Has(model_ids_to_fetch, model) THEN Get(model_ids_to_fetch, model) ELSE {}
Fetched(model) ==
    IF Has(model_data, model) THEN DOMAIN Get(model_data, model) ELSE {}
FetchCount(model) == Cardinality({i \in 1..Len(fetches) : fetches[i][1] = model})
Merged(source) ==
    IF Has(context_hints_per_source, source)
    THEN Get(context_hints_per_source, source) ELSE <<>>
HintedKeys(source) == KeysOf(Merged(source))
HintedModel(source, key) == ModelOf(Get(Merged(source), key))
IsIdList(v) == IsList(v) /\ \A i \in 1..Len(v.val) : IsInt(v.val[i])
Collecting == pc \in {"fetch", "load", "done"}
              \/ (pc = "raised" /\ error # "AttributeError")
\* some event of a source that hints a key with the model holds that key
Referenced(model) ==
    \E e \in 1..Len(events0) : \E key \in HintedKeys(events0[e].source) :
        /\ HintedModel(events0[e].source, key) = model
        /\ Occurrences(events0[e].context, key) # {}

\* C4: dict_find yields one (enclosing dict, value) pair for every dict entry of
\* the tree whose key is the target key, at every depth, inside lists and below
\* an entry that matched: none is skipped and none is yielded twice.
ScanExact(t, key) ==
    LET found == dict_find(t, key)
        occ == Occurrences(t, key)
    IN /\ \A i \in 1..Len(found) :
            /\ Append(found[i].d, KeyStep(key)) \in occ
            /\ found[i].value = At(t, Append(found[i].d, KeyStep(key)))
       /\ \A p \in occ :
            Cardinality({i \in 1..Len(found) : found[i].d = Front(p)}) = 1
C4_ScanYieldsEveryOccurrenceOnce ==
    Collecting =>
        \A e \in 1..Len(events0) : \A key \in ContextKeys :
            ScanExact(events0[e].context, key)
C4_Witness ==
    /\ pc = "fetch"
    /\ \E p, q \in Occurrences(events0[1].context, "user") :
            p # q /\ IsPrefix(p, q)

\* C3: get_model_ids_to_fetch returns for each model exactly the integers that
\* are, at any depth of an event's context, the value of a hinted key or an
\* element of the list that is its value, over the events whose source has merged
\* hints and the keys hinted for that source with that model.
IdsAt(v) ==
    {n \in IdUniverse : \/ v = IntV(n)
                        \/ IsList(v) /\ \E i \in 1..Len(v.val) : v.val[i] = IntV(n)}
ExpectedIds(model) ==
    UNION {UNION {UNION {IdsAt(At(events0[e].context, p)) :
                         p \in Occurrences(events0[e].context, key)} :
                  key \in {k \in HintedKeys(events0[e].source) :
                              HintedModel(events0[e].source, k) = model}} :
           e \in 1..Len(events0)}
C3_CollectedIdsExact ==
    Collecting =>
        \A model \in Models :
            /\ Collected(model) \subseteq IdUniverse
            /\ Collected(model) = ExpectedIds(model)
C3_Witness ==
    /\ pc = "fetch"
    /\ \E e \in 1..Len(events0) : Merged(events0[e].source) = <<>>
    /\ \E e \in 1..Len(events0) :
          /\ "user" \in HintedKeys(events0[e].source)
          /\ \E p \in Occurrences(events0[e].context, "user") :
                ~IsInt(At(events0[e].context, p)) /\ ~IsList(At(events0[e].context, p))
    /\ \E model \in Models : Cardinality(Collected(model)) >= 2

\* C5: get_context_hints_per_source gives, for each (source, key) some
\* declaration mentions, a merged hint whose select and prefetch sets are the
\* unions of those of all declarations for that (source, key) and whose model is
\* that of the last of them; no other (source, key) has a merged hint.
Declares(i, source, key) ==
    context_renderers[i].source = source /\ Has(context_renderers[i].context_hints, key)
Declared(i, key) == Get(context_renderers[i].context_hints, key)
C5_MergedHintsExact ==
    pc \notin {"start", "hints"} =>
        \A source \in {"feed", "mail", "other"} : \A key \in ContextKeys :
            LET ds == {i \in 1..Len(context_renderers) : Declares(i, source, key)}
            IN IF ds = {} THEN key \notin HintedKeys(source)
               ELSE /\ key \in HintedKeys(source)
                    /\ LET m == Get(Merged(source), key)
                           last == CHOOSE i \in ds : \A j \in ds : j <= i
                       IN /\ m.select_related =
                               UNION {Declared(i, key).select_related : i \in ds}
                          /\ m.prefetch_related =
                               UNION {Declared(i, key).prefetch_related : i \in ds}
                          /\ m.app_name = Declared(last, key).app_name
                          /\ m.model_name = Declared(last, key).model_name
C5_Witness ==
    /\ pc = "querysets"
    /\ Len(context_renderers) = 2
    /\ Declares(1, "feed", "user") /\ Declares(2, "feed", "user")
    /\ Declared(1, "user").model_name # Declared(2, "user").model_name
    /\ Declared(1, "user").select_related # Declared(2, "user").select_related

\* C6: get_querysets_for_context_hints returns one queryset per model some merged
\* hint names, whose select and prefetch sets are the unions of those of every
\* merged hint, of any source and key, that names the model.
MergedOf(model) ==
    {Get(Merged(source), key) : <<source, key>> \in
        {sk \in {"feed", "mail", "other"} \X ContextKeys :
            sk[2] \in HintedKeys(sk[1]) /\ HintedModel(sk[1], sk[2]) = model}}
C6_OneQuerysetPerModel ==
    (Collecting \/ pc = "ids") =>
        /\ \A i, j \in 1..Len(model_querysets) :
              model_querysets[i][1] = model_querysets[j][1] => i = j
        /\ \A model \in Models :
              IF MergedOf(model) = {} THEN ~Has(model_querysets, model)
              ELSE /\ Has(model_querysets, model)
                   /\ Get(model_querysets, model).select_related =
                        UNION {m.select_related : m \in MergedOf(model)}
                   /\ Get(model_querysets, model).prefetch_related =
                        UNION {m.prefetch_related : m \in MergedOf(model)}
C6_Witness ==
    /\ pc = "ids"
    /\ context_renderers = << Renderer("feed", "g1", << <<"user", HUser>> >>),
                              Renderer("feed", "g1", << <<"user", HUser2>> >>) >>
    /\ {"profile", "settings"} \subseteq Get(model_querysets, "User").select_related

\* C1: after load_contexts returned, in an event whose values at hinted keys are
\* integers or lists of integers, every list at a hinted key has the length it
\* had, its element at each index is the fetched object whose id is the element
\* that was there, or None when no object of that id was fetched, and nothing
\* else of the context changed.
IdsOnly(e) ==
    \A key \in HintedKeys(events0[e].source) :
        \A p \in Occurrences(events0[e].context, key) :
            IsInt(At(events0[e].context, p)) \/ IsIdList(At(events0[e].context, p))
HintedPath(e, p) ==
    Len(p) > 0 /\ Last(p)[1] = "key" /\ Last(p)[2] \in HintedKeys(events0[e].source)
Record(model, v) == IF v.val \in Fetched(model) THEN ObjV(model, v.val) ELSE NoneV
LoadedAsClaimed(e) ==
    LET source == events0[e].source
        was == events0[e].context
        now == events[e].context
    IN /\ PathsOf(now) = PathsOf(was)
       /\ \A p \in PathsOf(was) :
            LET o == At(was, p)
                n == At(now, p)
            IN IF IsList(o) THEN IsList(n) /\ Len(n.val) = Len(o.val)
               ELSE IF IsDict(o)
               THEN IsDict(n) /\ [j \in 1..Len(n.val) |-> n.val[j][1]]
                                  = [j \in 1..Len(o.val) |-> o.val[j][1]]
               ELSE IF HintedPath(e, p)
               THEN n = Record(HintedModel(source, Last(p)[2]), o)
               ELSE IF Len(p) > 1 /\ Last(p)[1] = "idx" /\ HintedPath(e, Front(p))
               THEN n = Record(HintedModel(source, Last(Front(p))[2]), o)
               ELSE n = o
C1_ListsLoadedInPlace ==
    pc = "done" => \A e \in 1..Len(events) : IdsOnly(e) => LoadedAsClaimed(e)
C1_Witness ==
    /\ pc = "done"
    /\ \E e \in 1..Len(events) :
          /\ IdsOnly(e)
          /\ "user" \in HintedKeys(events0[e].source)
          /\ Has(events0[e].context.val, "user")
          /\ Has(events0[e].context.val, "meta")
          /\ LET was == Get(events0[e].context.val, "user")
                 now == Get(events[e].context.val, "user")
             IN /\ IsList(was) /\ Len(was.val) = 3
                /\ now.val[1] = NoneV /\ now.val[2].tag = "obj" /\ now.val[3] = NoneV

\* C2 as claimed: once the fetches are over, a model was fetched once when its
\* collected set of ids is not empty and never when it is empty.
C2_FetchOnlyNonEmpty ==
    pc \in {"load", "done"} =>
        \A model \in Models :
            FetchCount(model) = IF Collected(model) # {} THEN 1 ELSE 0
\* C2 as amended: a model is fetched once when some event of a source that hints
\* a key with it holds that key, whatever the value there, and never otherwise.
C2_FetchOncePerCollectedModel ==
    /\ \A model \in Models : FetchCount(model) <= IF Referenced(model) THEN 1 ELSE 0
    /\ \A i \in 1..Len(fetches) : fetches[i][2] = Collected(fetches[i][1])
    /\ (pc \in {"load", "done"} \/ (pc = "raised" /\ error \in {"TypeError", "KeyError"}))
          => \A model \in Models :
                FetchCount(model) = IF Referenced(model) THEN 1 ELSE 0
References(model) ==
    {ekp \in (1..Len(events0)) \X ContextKeys \X
              UNION {PathsOf(events0[e].context) : e \in 1..Len(events0)} :
        /\ ekp[2] \in HintedKeys(events0[ekp[1]].source)
        /\ HintedModel(events0[ekp[1]].source, ekp[2]) = model
        /\ ekp[3] \in Occurrences(events0[ekp[1]].context, ekp[2])}
C2_Witness ==
    /\ pc = "load"
    /\ \E model \in Models : FetchCount(model) = 1 /\ Collected(model) = {}
    /\ \E model \in Models :
          /\ FetchCount(model) = 1
          /\ Collected(model) # {}
          /\ Cardinality(References(model)) >= 2

\* C7 as claimed: a value at a hinted key that is neither an integer nor a list
\* of integers is left as it was, and loading never raises on it.
Malformed(v) == ~IsInt(v) /\ ~IsIdList(v)
C7_MalformedLeftUntouched ==
    /\ error # "TypeError"
    /\ \A e \in 1..Len(events0) : \A key \in HintedKeys(events0[e].source) :
          \A p \in Occurrences(events0[e].context, key) :
              Malformed(At(events0[e].context, p)) =>
                  /\ p \in PathsOf(events[e].context)
                  /\ At(events[e].context, p) = At(events0[e].context, p)

\* C8: an event whose source no declaration of the asked render groups names has
\* the context it was given, in every state of the call.
NoDeclaration(source) ==
    ~\E i \in 1..Len(renderers) :
        /\ renderers[i].source = source
        /\ \E m \in 1..Len(mediums) : mediums[m].render_group = renderers[i].render_group
C8_UnhintedEventsUnchanged ==
    \A e \in 1..Len(events) :
        NoDeclaration(events0[e].source) => events[e] = events0[e]
C8_Witness ==
    /\ pc = "done"
    /\ \E e, f \in 1..Len(events) :
          /\ NoDeclaration(events0[e].source)
          /\ Occurrences(events0[e].context, "user") # {}
          /\ "user" \in HintedKeys(events0[f].source)
          /\ events[f] # events0[f]

\* C9: a context is written only when every fetch of the call is over, no fetch
\* follows a write, and a call that failed resolving a model or fetching leaves
\* every context as it was given.
C9_NoWriteBeforeFetchesDone ==
    [][/\ events' # events =>
            pc = "load" /\ Len(fetches) = Len(model_ids_to_fetch)
       /\ fetches' # fetches => events' = events0'
       /\ error' \in {"AttributeError", "BackendFetchError"} => events' = events0'
      ]_vars
C9_Witness ==
    /\ error = "BackendFetchError"
    /\ Len(fetches) = 1
    /\ Len(model_ids_to_fetch) = 2
    /\ DOMAIN model_data[1][2] # {}

\* C10: the model of every key the loading looks up has an entry in model_data,
\* so that loading never raises KeyError.
C10_LookedUpModelsFetched ==
    /\ error # "KeyError"
    /\ pc = "load" =>
          \A e \in 1..Len(events) : \A key \in HintedKeys(events[e].source) :
              Occurrences(events[e].context, key) # {}
                  => Has(model_data, HintedModel(events[e].source, key))
C10_Witness ==
    /\ pc = "done"
    /\ Has(model_data, "User") /\ Collected("User") = {}
    /\ events # events0
====
